---- MODULE Spec2Model ----
(***************************************************************************)
(* A model of fetch_podcast_transcripts.py: the start-up of main and       *)
(* resolve_channel_id, the Metadata Lister (list_videos), the Transcript   *)
(* Fetcher (fetch_transcript_with_retry), the Output Writer                *)
(* (write_transcript_file, write_index_csv) and the Orchestrator loop of   *)
(* main.  Text on which the code does character work (URLs, titles,        *)
(* durations, error messages) is a sequence of one-character strings;      *)
(* transcript text, which the code only joins and tests for emptiness, is  *)
(* a string.                                                               *)
(* Spec runs the program on the command lines that pass its validation,    *)
(* SpecStartup on any command line, SpecKill adds the end of the process   *)
(* from outside, and SpecPure calls parse_iso_duration and                 *)
(* sanitize_filename on their own.                                         *)
(***************************************************************************)
EXTENDS Integers, Sequences, FiniteSets, TLC

\* ------------------------------------------------------------------ bounds
\* Number of videos the directory service holds in the collection.
NumVideos == 5
\* Largest --batch-size tried (the smallest is 1).
MaxBatchSize == 2
\* Largest number of items the service puts on one listing page.
MaxPageSize == 2
\* Largest published-after instant tried (the smallest is 1).
MaxCutoff == 2
\* Largest number of requested identifiers a videos().list response leaves out.
MaxOmitted == 1
\* The jitter of a backoff sleep is one of 0, 1/JitterSteps, ..., 1 times
\* backoff * 0.5.
JitterSteps == 2

\* ------------------------------------------------------- program constants
MAX_RETRIES == 5
INITIAL_BACKOFF == 5
\* videos().list is called with at most this many identifiers (line 228).
DETAILS_BATCH == 50
\* sanitize_filename keeps this many characters (line 398).
MAX_TITLE_LEN == 100

\* Python's None for an optional integer (min_duration, max_duration) and for
\* a field not yet set on a video dictionary.
None == -1

\* ------------------------------------------------------------- characters
Digits == <<"0", "1", "2", "3", "4", "5", "6", "7", "8", "9">>
UpperLetters == <<"A", "B", "C", "D", "E", "F", "G", "H", "I", "J", "K", "L", "M",
                  "N", "O", "P", "Q", "R", "S", "T", "U", "V", "W", "X", "Y", "Z">>
LowerLetters == <<"a", "b", "c", "d", "e", "f", "g", "h", "i", "j", "k", "l", "m",
                  "n", "o", "p", "q", "r", "s", "t", "u", "v", "w", "x", "y", "z">>

Range(f) == {f[x] : x \in DOMAIN f}

IsDigit(c) == c \in Range(Digits)

DigitValue(c) == (CHOOSE k \in DOMAIN Digits : Digits[k] = c) - 1

\* str.lower() on one character.
LowerChar(c) ==
    IF c \in Range(UpperLetters)
    THEN LowerLetters[CHOOSE k \in DOMAIN UpperLetters : UpperLetters[k] = c]
    ELSE c

\* str.lower()
Lower(s) == [k \in DOMAIN s |-> LowerChar(s[k])]

\* Python's `sub in s` for strings.
Contains(sub, s) ==
    \E k \in 0..(Len(s) - Len(sub)) :
        \A j \in 1..Len(sub) : s[k + j] = sub[j]

\* Mutant of Prefix: nothing is cut.
Prefix_NoCut(s, n) == s

\* s[:n]
Prefix(s, n) == SubSeq(s, 1, IF Len(s) < n THEN Len(s) ELSE n)

\* ------------------------------------------------------ parse_iso_duration
RECURSIVE RemovePT(_)
\* duration.replace('PT', '')
RemovePT(s) ==
    IF Len(s) < 2 THEN s
    ELSE IF s[1] = "P" /\ s[2] = "T" THEN RemovePT(SubSeq(s, 3, Len(s)))
    ELSE <<s[1]>> \o RemovePT(Tail(s))

RECURSIVE DigitsToInt(_)
\* int() of a run of decimal digits.
DigitsToInt(s) ==
    IF s = <<>> THEN 0
    ELSE 10 * DigitsToInt(SubSeq(s, 1, Len(s) - 1)) + DigitValue(s[Len(s)])

\* The (start, end) pairs at which the pattern (\d+)X matches in s.
DigitRunsBefore(s, X) ==
    {p \in (1..Len(s)) \X (1..Len(s)) :
        /\ p[1] <= p[2]
        /\ p[2] < Len(s)
        /\ \A k \in p[1]..p[2] : IsDigit(s[k])
        /\ s[p[2] + 1] = X}

\* re.search(r'(\d+)X', s): the leftmost match, its digits taken greedily;
\* the value of group 1, and 0 where the code leaves the segment at 0.
SegmentValue(s, X) ==
    LET runs == DigitRunsBefore(s, X) IN
    IF X \notin Range(s) \/ runs = {} THEN 0
    ELSE LET first == CHOOSE p \in runs : \A q \in runs : p[1] <= q[1]
         IN DigitsToInt(SubSeq(s, first[1], first[2]))

\* Mutant of parse_iso_duration: the hours are left out of the sum.
parse_iso_duration_NoHours(duration) ==
    LET d == RemovePT(duration) IN
    SegmentValue(d, "M") * 60 + SegmentValue(d, "S")

\* Lines 291-315.
parse_iso_duration(duration) ==
    LET d == RemovePT(duration) IN
    SegmentValue(d, "H") * 3600 + SegmentValue(d, "M") * 60 + SegmentValue(d, "S")

\* ------------------------------------------------------- sanitize_filename
\* A character the pattern [^\w\-_] does not remove.
IsFilenameChar(c) ==
    \/ c \in Range(LowerLetters) \/ c \in Range(UpperLetters)
    \/ IsDigit(c) \/ c = "_" \/ c = "-"

\* re.sub(r'[^\w\-_]', '', s)
KeepFilenameChars(s) == SelectSeq(s, IsFilenameChar)

sanitize_filename(title) ==
    LET lowered == Lower(title)
        joined == [k \in DOMAIN lowered |-> IF lowered[k] = " " THEN "_" ELSE lowered[k]]
    IN Prefix(KeepFilenameChars(joined), MAX_TITLE_LEN)

\* ------------------------------------------------- the directory service
\* The collection the service holds: videos 1..NumVideos, in the order the
\* service lists them.  What the service reports for a video is fixed by
\* its identifier and repeats with period 6.
VideoIds == 1..NumVideos

Slot(v) == ((v - 1) % 6) + 1

\* status.privacyStatus
PrivacyOf(v) ==
    CASE Slot(v) = 3 -> "private"
      [] Slot(v) = 6 -> "unlisted"
      [] OTHER -> "public"

\* contentDetails.duration
DurationIsoOf(v) ==
    CASE Slot(v) = 1 -> <<"P", "T", "4", "5", "S">>
      [] Slot(v) = 2 -> <<"P", "T", "1", "H", "2", "M", "3", "0", "S">>
      [] Slot(v) = 3 -> <<"P", "T", "2", "H">>
      [] Slot(v) = 4 -> <<"P", "T", "2", "H">>
      [] Slot(v) = 5 -> <<>>
      [] OTHER -> <<"P", "T", "4", "5", "S">>

\* snippet.publishedAt, as an instant
PublishedAtOf(v) ==
    CASE Slot(v) = 1 -> 3
      [] Slot(v) = 2 -> 2
      [] Slot(v) = 3 -> 3
      [] Slot(v) = 4 -> 1
      [] OTHER -> 2

\* snippet.title
TitleOf(v) ==
    CASE Slot(v) = 1 -> <<"E", "p", " ", "1">>
      [] Slot(v) = 2 -> <<"A", "-", "b", "_", "C", "!">>
      [] Slot(v) = 3 -> <<"x">>
      [] Slot(v) = 4 -> <<"Q", "&", "A", " ", " ", "2">>
      [] Slot(v) = 5 -> <<>>
      [] OTHER -> <<"z">>

RECURSIVE SeqOfIds(_)
SeqOfIds(n) == IF n = 0 THEN <<>> ELSE Append(SeqOfIds(n - 1), n)

\* What the listing endpoint serves.  playlistItems().list has no date
\* filter; search().list is asked for publishedAfter and applies it.
ServiceListing(a) ==
    IF a.playlist_id
    THEN SeqOfIds(NumVideos)
    ELSE LET AtOrAfter(v) == PublishedAtOf(v) >= a.published_after
         IN SelectSeq(SeqOfIds(NumVideos), AtOrAfter)

\* ------------------------------------------------ the transcript service
\* The segment lists api.fetch may return.
SegmentLists == {<<>>, <<"">>, <<"hello", "world">>}

Msg429 == <<"H", "T", "T", "P", " ", "4", "2", "9">>
MsgTooMany == <<"T", "o", "o", " ", "M", "a", "n", "y", " ",
                "R", "e", "q", "u", "e", "s", "t", "s">>
MsgRate == <<"R", "a", "t", "e", " ", "l", "i", "m", "i", "t">>
MsgTimeout == <<"t", "i", "m", "e", "d", " ", "o", "u", "t">>

\* The messages of the errors that are none of the three transcript errors.
ErrorMessages == {Msg429, MsgTooMany, MsgRate, MsgTimeout, <<>>}

TerminalClasses == {"NoTranscriptFound", "TranscriptsDisabled", "VideoUnavailable"}

\* The errors that signal rate limiting.
RateLimitResponses ==
    {[cls |-> "Exception", msg |-> m] : m \in {Msg429, MsgTooMany, MsgRate}}

\* last_resp before the first call of a fetch and while the fetcher sleeps.
NoResponse == [cls |-> "none"]

\* Every outcome of one api.fetch call.
Responses ==
    {[cls |-> "ok", segments |-> g] : g \in SegmentLists}
    \cup {[cls |-> c] : c \in TerminalClasses}
    \cup {[cls |-> "Exception", msg |-> m] : m \in ErrorMessages}

\* ------------------------------------------------------------ channel URLs
\* --channel-url not given.
NoUrl == <<>>
\* main: channel_id = None
NoChannel == <<>>

\* "/channel/UC1", "/@h", "/c/n", "/user/n", "/channel/", "/@/" and "/x": the
\* part of a channel URL after the host.
UrlChannel == <<"/", "c", "h", "a", "n", "n", "e", "l", "/", "U", "C", "1">>
UrlHandle == <<"/", "@", "h">>
UrlCustom == <<"/", "c", "/", "n">>
UrlUser == <<"/", "u", "s", "e", "r", "/", "n">>
UrlChannelNoId == <<"/", "c", "h", "a", "n", "n", "e", "l", "/">>
UrlHandleNoName == <<"/", "@", "/">>
UrlOther == <<"/", "x">>
ChannelUrls == {UrlChannel, UrlHandle, UrlCustom, UrlUser, UrlChannelNoId,
                UrlHandleNoName, UrlOther}

\* The channelId of the first item of a search().list response.
FoundChannel == <<"U", "C", "2">>
\* What a search().list request comes back with: one item, no item, HttpError.
SearchOutcomes == {"items", "empty", "error"}

\* No helper is being called on its own.
NoCall == [fn |-> "none"]

\* -------------------------------------------------------------- variables
VARIABLES
    pc,                   \* where main is: "start", "resolve", "list",
                          \* "details", "fetch", "backoff", "pace", "done",
                          \* "exited"; "killed" once the process has been
                          \* terminated; "pure" when only a helper is called
    args,                 \* the parsed command line and YOUTUBE_API_KEY
    channel_id,           \* main: channel_id, NoChannel is None
    searches,             \* history: what each search().list request came
                          \* back with, "pending" while it is in flight
    pure_call,            \* the helper called on its own, with its input and,
                          \* once it has returned, its result
    next_page_token,      \* list_videos: 0 is None
    lv_videos,            \* list_videos: videos
    detail_i,             \* list_videos: i of the details loop
    videos_with_details,  \* list_videos: videos_with_details
    page_trace,           \* history: <<token sent, token received>> of each
                          \* listing request of the list_videos call in
                          \* progress; empty once main is in its loop
    details_seen,         \* history: the identifiers the videos().list
                          \* responses carried
    videos,               \* main: videos, the list list_videos returned
    i,                    \* main: 1-based position in the loop
    success_count,
    skip_count,
    attempt,              \* fetch_transcript_with_retry: attempt
    backoff,              \* fetch_transcript_with_retry: backoff
    wait_time,            \* fetch_transcript_with_retry: wait_time of the sleep
                          \* in progress, in units of 1/(2*JitterSteps) s;
                          \* 0 when the fetcher is not sleeping
    transcript,           \* main: what the last fetch returned
    files,                \* the transcript files in the output directory
    index_csv,            \* index.csv: <<>> while absent, else <<rows>>
    exit_status,          \* None while running
    fetch_trace,          \* history: the "call"s and "sleep"s of the current fetch
    last_resp,            \* history: the response the fetcher last handled
    only_rate_limits,     \* history: every response of the current fetch was
                          \* one of RateLimitResponses
    rate_limited,         \* history: how many responses of the current fetch
                          \* were one of RateLimitResponses
    list_error,           \* history: a request of list_videos raised HttpError
    run_log               \* history: what main has done, in order

vars == <<pc, args, channel_id, searches, pure_call, next_page_token, lv_videos, detail_i, videos_with_details,
          page_trace, details_seen,
          videos, i, success_count, skip_count, attempt, backoff, wait_time,
          transcript, files, index_csv, exit_status, fetch_trace, last_resp,
          only_rate_limits, rate_limited, list_error, run_log>>

startVars == <<channel_id, searches, pure_call>>
listVars == <<next_page_token, lv_videos, detail_i, videos_with_details,
              page_trace, details_seen>>
loopVars == <<videos, i, success_count, skip_count>>
fetchVars == <<attempt, backoff, wait_time, transcript, fetch_trace, last_resp,
               only_rate_limits, rate_limited>>
outVars == <<files, index_csv>>

\* Optional[str]: None is <<>>, the string t is <<t>>.
NoText == <<>>

\* Python truthiness of an Optional[int] and of an Optional[str].
TruthyInt(n) == n # None /\ n # 0
TruthyText(t) == t # NoText /\ t[1] # ""

\* Every variable but pc, args and pure_call, before main has done anything.
Fresh ==
    /\ channel_id = NoChannel
    /\ searches = <<>>
    /\ next_page_token = 0
    /\ lv_videos = <<>>
    /\ detail_i = 0
    /\ videos_with_details = <<>>
    /\ page_trace = <<>>
    /\ details_seen = {}
    /\ videos = <<>>
    /\ i = 0
    /\ success_count = 0
    /\ skip_count = 0
    /\ attempt = 0
    /\ backoff = INITIAL_BACKOFF
    /\ wait_time = 0
    /\ transcript = NoText
    /\ files = {}
    /\ index_csv = <<>>
    /\ exit_status = None
    /\ fetch_trace = <<>>
    /\ last_resp = NoResponse
    /\ only_rate_limits = TRUE
    /\ rate_limited = 0
    /\ list_error = FALSE
    /\ run_log = <<>>

\* The <<--min-duration, --max-duration>> pairs tried: each option is not
\* given, 0 or positive in one of them.
DurationBounds ==
    {<<None, None>>, <<0, 3750>>, <<60, 0>>, <<60, 3750>>}

\* Command lines that pass the validation of main: exactly one of
\* --channel-url and --playlist-id, and the API key set.
RunArgs ==
    {[channel_url |-> IF p THEN NoUrl ELSE UrlHandle,
      playlist_id |-> p,
      api_key |-> TRUE,
      published_after |-> c,
      min_duration |-> d[1],
      max_duration |-> d[2],
      batch_size |-> b] :
        p \in BOOLEAN, c \in 1..MaxCutoff, d \in DurationBounds,
        b \in {1, MaxBatchSize}}

Init ==
    /\ pc = "start"
    /\ args \in RunArgs
    /\ pure_call = NoCall
    /\ Fresh

\* ----------------------------------------------------- resolve_channel_id
SlashChannel == <<"/", "c", "h", "a", "n", "n", "e", "l", "/">>
SlashAt == <<"/", "@">>
SlashC == <<"/", "c", "/">>
SlashUser == <<"/", "u", "s", "e", "r", "/">>

\* [^/?]
IsNameChar(c) == c \notin {"/", "?"}

RECURSIVE NameRun(_, _)
\* ([^/?]+) from position p of url: the longest run of name characters.
NameRun(url, p) ==
    IF p > Len(url) \/ ~IsNameChar(url[p]) THEN <<>>
    ELSE <<url[p]>> \o NameRun(url, p + 1)

\* The literal lit, then at least one name character, at position p of url.
MatchesAt(lit, url, p) ==
    /\ p + Len(lit) <= Len(url)
    /\ SubSeq(url, p, p + Len(lit) - 1) = lit
    /\ IsNameChar(url[p + Len(lit)])

\* re.search of one of the literals followed by ([^/?]+): group 1 of the
\* leftmost match, <<>> when there is no match.
SearchGroup(lits, url) ==
    LET at == {p \in 1..Len(url) : \E lit \in lits : MatchesAt(lit, url, p)}
    IN IF at = {} THEN <<>>
       ELSE LET p == CHOOSE q \in at : \A r \in at : q <= r
                lit == CHOOSE l \in lits : MatchesAt(l, url, p)
            IN NameRun(url, p + Len(lit))

\* resolve_channel_id up to its request, if it makes one: either it returns
\* a channel identifier (NoChannel is None) or it sends search().list for q.
ResolvePlan(channel_url) ==
    LET id == IF Contains(SlashChannel, channel_url)
              THEN SearchGroup({SlashChannel}, channel_url) ELSE <<>>
        handle == SearchGroup({SlashAt}, channel_url)
        name == SearchGroup({SlashC, SlashUser}, channel_url)
    IN IF id # <<>> THEN [do |-> "return", channel_id |-> id]
       ELSE IF Contains(SlashAt, channel_url)
       THEN IF handle # <<>> THEN [do |-> "search", q |-> <<"@">> \o handle]
            ELSE [do |-> "return", channel_id |-> NoChannel]
       ELSE IF Contains(SlashC, channel_url) \/ Contains(SlashUser, channel_url)
       THEN IF name # <<>> THEN [do |-> "search", q |-> name]
            ELSE [do |-> "return", channel_id |-> NoChannel]
       ELSE [do |-> "return", channel_id |-> NoChannel]

\* Mutant of SearchResult: every search is taken to have found a channel.
SearchResult_AlwaysFound(outcome) == FoundChannel

\* resolve_channel_id after its search().list request came back.
SearchResult(outcome) ==
    IF outcome = "items" THEN FoundChannel ELSE NoChannel

\* ------------------------------------------------------------ list_videos
\* The dictionary list_videos builds from one listed item.
VideoRecord(v) ==
    [video_id |-> v,
     title |-> TitleOf(v),
     published_at |-> PublishedAtOf(v),
     video_url |-> [watch |-> v]]

\* Line 181: the cutoff test of playlist mode.
PublishedAfterCutoff(published_at, published_after) ==
    published_at >= published_after

RECURSIVE AppendPage(_, _, _)
\* The for loop over response['items']: playlist mode tests each item's
\* publishedAt, channel mode appends every item.
AppendPage(acc, page, a) ==
    IF page = <<>> THEN acc
    ELSE LET v == Head(page)
             take == IF a.playlist_id
                     THEN PublishedAfterCutoff(PublishedAtOf(v), a.published_after)
                     ELSE TRUE
         IN AppendPage(IF take THEN Append(acc, VideoRecord(v)) ELSE acc,
                       Tail(page), a)

\* Mutant of MorePages: the loop stops after the first page.
MorePages_Never(token) == FALSE

\* Lines 189-191 and 219-221: the while loop asks for another page.
MorePages(token) == token # 0

\* Mutant of ErrorResult: the items accumulated so far are returned.
ErrorResult_Accumulated(accumulated) == accumulated

\* Line 277: what list_videos returns after an HttpError, whatever it had
\* accumulated.
ErrorResult(accumulated) == <<>>

\* parse_iso_duration of the contentDetails.duration of each video of the
\* catalogue.
ParsedDurationOf == [v \in VideoIds |-> parse_iso_duration(DurationIsoOf(v))]

\* details_map of one videos().list response that carries the videos in
\* `present`.
DetailsMap(present) ==
    [v \in present |->
        [duration |-> ParsedDurationOf[v],
         privacy_status |-> PrivacyOf(v)]]

\* PassesFilters without the privacy test.
PassesFilters_AnyPrivacy(details, a) ==
    /\ ~(TruthyInt(a.min_duration) /\ details.duration < a.min_duration)
    /\ ~(TruthyInt(a.max_duration) /\ details.duration > a.max_duration)

\* Lines 259-267: TRUE when neither `continue` is taken.
PassesFilters(details, a) ==
    /\ details.privacy_status = "public"
    /\ ~(TruthyInt(a.min_duration) /\ details.duration < a.min_duration)
    /\ ~(TruthyInt(a.max_duration) /\ details.duration > a.max_duration)

\* Mutant of EnrichBatch: a video that is not in details_map is kept as it
\* was listed.
EnrichBatch_KeepsUnknown(acc, batch, details_map, a) ==
    LET Keep(video) ==
            video.video_id \in DOMAIN details_map =>
                PassesFilters(details_map[video.video_id], a)
        kept == SelectSeq(batch, Keep)
    IN acc \o [k \in DOMAIN kept |->
                  IF kept[k].video_id \in DOMAIN details_map
                  THEN kept[k] @@ [duration |-> details_map[kept[k].video_id].duration]
                  ELSE kept[k]]

\* Lines 253-270: the videos of the batch that are in details_map and pass
\* the filters, each with its duration set, appended to acc in batch order.
EnrichBatch(acc, batch, details_map, a) ==
    LET Keep(video) ==
            /\ video.video_id \in DOMAIN details_map
            /\ PassesFilters(details_map[video.video_id], a)
        kept == SelectSeq(batch, Keep)
    IN acc \o [k \in DOMAIN kept |->
                  kept[k] @@ [duration |-> details_map[kept[k].video_id].duration]]

\* ------------------------------------------- fetch_transcript_with_retry
\* Mutant of JoinText: the segments are joined without a separator.
JoinText_NoSeparator(segments) ==
    IF segments = <<>> THEN ""
    ELSE IF Len(segments) = 1 THEN segments[1]
    ELSE segments[1] \o segments[2]

RECURSIVE JoinText(_)
\* ' '.join(segment.text for segment in segments)
JoinText(segments) ==
    IF segments = <<>> THEN ""
    ELSE IF Len(segments) = 1 THEN segments[1]
    ELSE segments[1] \o " " \o JoinText(Tail(segments))

\* IsRateLimit with a marker every message contains.
IsRateLimit_AnyMessage(msg) == Contains(<<>>, Lower(msg))

\* Line 359: the test on str(e).lower().
IsRateLimit(msg) ==
    LET error_str == Lower(msg) IN
    \/ Contains(<<"4", "2", "9">>, error_str)
    \/ Contains(<<"t", "o", "o", " ", "m", "a", "n", "y", " ",
                  "r", "e", "q", "u", "e", "s", "t", "s">>, error_str)
    \/ Contains(<<"r", "a", "t", "e">>, error_str)

\* Mutant of NextBackoff: the backoff grows by its initial value.
NextBackoff_Linear(b) == b + INITIAL_BACKOFF

\* Line 366.
NextBackoff(b) == b * 2

\* Lines 362-363: the values wait_time may take for backoff b, in units of
\* 1/(2*JitterSteps) s: backoff plus a jitter from 0 to backoff * 0.5.
WaitTimes(b) == {2 * JitterSteps * b + j * b : j \in 0..JitterSteps}

\* Mutant of MayRetry: a rate limit is always followed by a sleep.
MayRetry_Always(att, max_retries) == TRUE

\* MayRetry with the comparison off by one.
MayRetry_OffByOne(att, max_retries) == att <= max_retries

\* Line 360.
MayRetry(att, max_retries) == att < max_retries

\* FetchStep with the three transcript errors handled by the generic
\* handler's retry.
FetchStep_RetryTerminal(resp, att, max_retries) ==
    CASE resp.cls = "ok" ->
            [do |-> "return", result |-> <<JoinText(resp.segments)>>]
      [] resp.cls \in TerminalClasses ->
            IF MayRetry(att, max_retries)
            THEN [do |-> "sleep", result |-> NoText]
            ELSE [do |-> "return", result |-> NoText]
      [] OTHER ->
            IF IsRateLimit(resp.msg) /\ MayRetry(att, max_retries)
            THEN [do |-> "sleep", result |-> NoText]
            ELSE [do |-> "return", result |-> NoText]

\* What one api.fetch response makes the fetcher do: "return" with a
\* result, or "sleep" before the next attempt.
FetchStep(resp, att, max_retries) ==
    CASE resp.cls = "ok" ->
            [do |-> "return", result |-> <<JoinText(resp.segments)>>]
      [] resp.cls \in TerminalClasses ->
            [do |-> "return", result |-> NoText]
      [] OTHER ->
            IF IsRateLimit(resp.msg) /\ MayRetry(att, max_retries)
            THEN [do |-> "sleep", result |-> NoText]
            ELSE [do |-> "return", result |-> NoText]

\* ------------------------------------------------------- the Output Writer
\* Lines 420-426: the file name, as its three parts.
TranscriptFilename(video) ==
    [date |-> video.published_at,
     video_id |-> video.video_id,
     title |-> sanitize_filename(video.title)]

\* Lines 430-436: the file write_transcript_file leaves on disk.
TranscriptFile(video, text) ==
    [name |-> TranscriptFilename(video),
     title |-> video.title,
     video_url |-> video.video_url,
     published_at |-> video.published_at,
     duration |-> IF "duration" \in DOMAIN video THEN video.duration ELSE None,
     body |-> text]

\* What is on disk when the process ends between open(filepath, 'w') of line
\* 430 and the close of the file: the name, with none or some of the text.
PartialFile(video) == [name |-> TranscriptFilename(video)]

\* Mutant of WriteFile: the other files of the directory are lost.
WriteFile_AloneInDirectory(fs, file) == {file}

\* open(filepath, 'w'): a file of that name is replaced.
WriteFile(fs, file) == {f \in fs : f.name # file.name} \cup {file}

\* Lines 465-473: one row of index.csv.
IndexRow(video) ==
    [video_id |-> video.video_id,
     title |-> video.title,
     published_at |-> video.published_at,
     video_url |-> video.video_url,
     duration |-> IF "duration" \in DOMAIN video THEN video.duration ELSE None,
     has_transcript |-> IF "has_transcript" \in DOMAIN video
                        THEN video.has_transcript ELSE FALSE,
     transcript_path |-> IF "transcript_path" \in DOMAIN video
                         THEN video.transcript_path ELSE <<>>]

\* IndexRows with a row only for the videos that have a transcript.
IndexRows_OnlyTranscribed(vs) ==
    LET HasTranscript(video) == "has_transcript" \in DOMAIN video /\ video.has_transcript
        kept == SelectSeq(vs, HasTranscript)
    IN [k \in DOMAIN kept |-> IndexRow(kept[k])]

\* write_index_csv: the rows under the header.
IndexRows(vs) == [k \in DOMAIN vs |-> IndexRow(vs[k])]

\* ------------------------------------------------------------------- main
\* PauseAfter with the batch boundary counted from the item before.
PauseAfter_FromZero(pos, total, batch_size) ==
    IF pos < total
    THEN IF (pos - 1) % batch_size = 0 THEN "batch" ELSE "delay"
    ELSE "none"

\* Lines 635-645: the pause that follows item pos of total.
PauseAfter(pos, total, batch_size) ==
    IF pos < total
    THEN IF pos % batch_size = 0 THEN "batch" ELSE "delay"
    ELSE "none"

\* CountOutcome with the skip counter left alone.
CountOutcome_SkipNotCounted(ok, succeeded, skipped) ==
    [success_count |-> IF ok THEN succeeded + 1 ELSE succeeded,
     skip_count |-> skipped]

\* Lines 626 and 631: the two counters after an item.
CountOutcome(ok, succeeded, skipped) ==
    [success_count |-> IF ok THEN succeeded + 1 ELSE succeeded,
     skip_count |-> IF ok THEN skipped ELSE skipped + 1]

\* Lines 621-632: the video after its outcome is set.  The path is <<name>>,
\* and <<>> for ''.
MarkOutcome(video, text) ==
    IF TruthyText(text)
    THEN [f \in (DOMAIN video) \ {"has_transcript", "transcript_path"} |-> video[f]]
         @@ [has_transcript |-> TRUE,
             transcript_path |-> <<TranscriptFilename(video)>>]
    ELSE [f \in (DOMAIN video) \ {"has_transcript", "transcript_path"} |-> video[f]]
         @@ [has_transcript |-> FALSE, transcript_path |-> <<>>]

Min(a, b) == IF a < b THEN a ELSE b

\* An entry of run_log.
Event(e, pos, video_id, kind) ==
    [e |-> e, pos |-> pos, video_id |-> video_id, kind |-> kind]

\* Lines 594-619, entered when list_videos returns `result`: exit with
\* status 0 on an empty list, else start the loop and call the fetcher for
\* the first video, up to its first api.fetch.
MainAfterList(result) ==
    IF result = <<>>
    THEN /\ pc' = "exited"
         /\ exit_status' = 0
         /\ UNCHANGED <<loopVars, fetchVars, outVars, run_log>>
    ELSE /\ pc' = "fetch"
         /\ videos' = result
         /\ i' = 1
         /\ success_count' = 0
         /\ skip_count' = 0
         /\ attempt' = 0
         /\ backoff' = INITIAL_BACKOFF
         /\ fetch_trace' = <<>>
         /\ last_resp' = NoResponse
         /\ only_rate_limits' = TRUE
         /\ rate_limited' = 0
         /\ run_log' = Append(run_log, Event("fetch", 1, result[1].video_id, "-"))
         /\ UNCHANGED <<wait_time, transcript, outVars, exit_status>>

\* sys.exit(1)
ExitFailure ==
    /\ pc' = "exited"
    /\ exit_status' = 1
    /\ UNCHANGED <<args, listVars, loopVars, fetchVars, outVars, list_error,
                   run_log, pure_call>>

\* Lines 569-572: main with what resolve_channel_id returned.
MainAfterResolve(id) ==
    IF id = NoChannel
    THEN /\ channel_id' = id
         /\ ExitFailure
    ELSE /\ channel_id' = id
         /\ pc' = "list"
         /\ UNCHANGED <<args, listVars, loopVars, fetchVars, outVars, list_error,
                        run_log, exit_status, pure_call>>

\* Mutant of Validate: the API key is not looked at.
Validate_KeyNotChecked(a) ==
    IF a.channel_url = NoUrl /\ ~a.playlist_id THEN FALSE
    ELSE IF a.channel_url # NoUrl /\ a.playlist_id THEN FALSE
    ELSE TRUE

\* Lines 541-554: TRUE when main goes on, FALSE when it calls sys.exit(1).
Validate(a) ==
    IF a.channel_url = NoUrl /\ ~a.playlist_id THEN FALSE
    ELSE IF a.channel_url # NoUrl /\ a.playlist_id THEN FALSE
    ELSE IF ~a.api_key THEN FALSE
    ELSE TRUE

\* main from its first line to its first request: the validation of the
\* command line and of the API key and, for a channel URL, resolve_channel_id
\* up to its request or its return.
Startup ==
    /\ pc = "start"
    /\ IF ~Validate(args)
       THEN /\ ExitFailure
            /\ UNCHANGED <<channel_id, searches>>
       ELSE IF args.channel_url = NoUrl
       THEN /\ pc' = "list"
            /\ UNCHANGED <<args, startVars, listVars, loopVars, fetchVars, outVars,
                           list_error, run_log, exit_status>>
       ELSE LET plan == ResolvePlan(args.channel_url)
            IN IF plan.do = "search"
               THEN /\ pc' = "resolve"
                    /\ searches' = Append(searches, "pending")
                    /\ UNCHANGED <<args, channel_id, pure_call, listVars, loopVars,
                                   fetchVars, outVars, list_error, run_log,
                                   exit_status>>
               ELSE /\ UNCHANGED searches
                    /\ MainAfterResolve(plan.channel_id)

\* The search().list request of resolve_channel_id comes back.
ResolveSearch(outcome) ==
    /\ pc = "resolve"
    /\ searches' = [searches EXCEPT ![Len(searches)] = outcome]
    /\ MainAfterResolve(SearchResult(outcome))

\* One playlistItems().list or search().list request that succeeds, and
\* the code up to the next request (lines 166-236).  The service answers
\* from the position the token names with 1..MaxPageSize items and gives a
\* token while items remain.
ListPage(k) ==
    /\ pc = "list"
    /\ LET coll == ServiceListing(args)
           to == Min(next_page_token + k, Len(coll))
           page == SubSeq(coll, next_page_token + 1, to)
           token == IF to < Len(coll) THEN to ELSE 0
           acc == AppendPage(lv_videos, page, args)
       IN /\ lv_videos' = acc
          /\ next_page_token' = token
          /\ page_trace' = Append(page_trace, <<next_page_token, token>>)
          /\ UNCHANGED <<args, startVars, detail_i, videos_with_details, details_seen, list_error>>
          /\ IF MorePages(token)
             THEN /\ pc' = "list"
                  /\ UNCHANGED <<loopVars, fetchVars, outVars, exit_status, run_log>>
             ELSE IF acc = <<>>
             THEN MainAfterList(<<>>)
             ELSE /\ pc' = "details"
                  /\ UNCHANGED <<loopVars, fetchVars, outVars, exit_status, run_log>>

\* A listing request that raises HttpError: list_videos returns [] (lines
\* 275-277) and main goes on from line 594.
ListPageError ==
    /\ pc = "list"
    /\ list_error' = TRUE
    /\ MainAfterList(ErrorResult(lv_videos))
    /\ UNCHANGED <<args, startVars, listVars>>

\* One videos().list request that succeeds, answering for the identifiers
\* in `present`, and the code up to the next request (lines 228-273).
\* Line 269 also sets the duration on the dictionary in `videos`, which
\* list_videos does not read again.
DetailsBatch(present) ==
    /\ pc = "details"
    /\ LET last == Min(detail_i + DETAILS_BATCH, Len(lv_videos))
           batch == SubSeq(lv_videos, detail_i + 1, last)
           acc == EnrichBatch(videos_with_details, batch, DetailsMap(present), args)
           asked == {batch[k].video_id : k \in DOMAIN batch}
       IN /\ present \subseteq asked
          /\ Cardinality(asked \ present) <= MaxOmitted
          /\ videos_with_details' = acc
          /\ detail_i' = detail_i + DETAILS_BATCH
          /\ details_seen' = details_seen \cup present
          /\ page_trace' = IF detail_i + DETAILS_BATCH < Len(lv_videos) \/ acc = <<>>
                            THEN page_trace ELSE <<>>
          /\ UNCHANGED <<args, startVars, next_page_token, lv_videos, list_error>>
          /\ IF detail_i + DETAILS_BATCH < Len(lv_videos)
             THEN /\ pc' = "details"
                  /\ UNCHANGED <<loopVars, fetchVars, outVars, exit_status, run_log>>
             ELSE MainAfterList(acc)

\* A details request that raises HttpError.
DetailsBatchError ==
    /\ pc = "details"
    /\ list_error' = TRUE
    /\ MainAfterList(ErrorResult(videos_with_details))
    /\ UNCHANGED <<args, startVars, listVars>>

\* Lines 621-648, entered when the fetcher returns `text` for video i: set
\* the outcome, write the file on success, then either start the pause that
\* follows the item or, after the last item, write index.csv and return.
MainAfterFetch(text) ==
    LET video == videos[i]
        ok == TruthyText(text)
        marked == [videos EXCEPT ![i] = MarkOutcome(video, text)]
        pause == PauseAfter(i, Len(videos), args.batch_size)
        done == (IF ok THEN <<Event("artifact", i, video.video_id, "-")>> ELSE <<>>)
                \o <<Event("outcome", i, video.video_id, IF ok THEN "succeeded" ELSE "failed")>>
    IN /\ transcript' = text
       /\ videos' = marked
       /\ files' = IF ok THEN WriteFile(files, TranscriptFile(video, text[1])) ELSE files
       /\ success_count' = CountOutcome(ok, success_count, skip_count).success_count
       /\ skip_count' = CountOutcome(ok, success_count, skip_count).skip_count
       /\ UNCHANGED i
       /\ IF pause # "none"
          THEN /\ pc' = "pace"
               /\ run_log' = run_log \o done \o <<Event("pause", i, video.video_id, pause)>>
               /\ UNCHANGED <<index_csv, exit_status>>
          ELSE /\ pc' = "done"
               /\ index_csv' = <<IndexRows(marked)>>
               /\ run_log' = run_log \o done \o <<Event("index", i, 0, "-")>>
               /\ exit_status' = 0

\* One api.fetch call with response `resp` (lines 331-373), and, when the
\* fetcher returns, main up to its next sleep or its end.
FetchCall(resp) ==
    /\ pc = "fetch"
    /\ fetch_trace' = Append(fetch_trace, "call")
    /\ last_resp' = resp
    /\ only_rate_limits' = (only_rate_limits /\ resp \in RateLimitResponses)
    /\ rate_limited' = rate_limited + (IF resp \in RateLimitResponses THEN 1 ELSE 0)
    /\ UNCHANGED <<args, startVars, listVars, list_error>>
    /\ LET step == FetchStep(resp, attempt, MAX_RETRIES)
       IN IF step.do = "sleep"
          THEN /\ pc' = "backoff"
               /\ wait_time' \in WaitTimes(backoff)
               /\ UNCHANGED <<loopVars, attempt, backoff, transcript, outVars,
                              exit_status, run_log>>
          ELSE /\ UNCHANGED <<attempt, backoff, wait_time>>
               /\ MainAfterFetch(step.result)

\* time.sleep(wait_time) of line 365 ends: the backoff doubles and
\* `continue` takes the next attempt of range(max_retries + 1); past the
\* range the fetcher returns None (line 375).
Backoff ==
    /\ pc = "backoff"
    /\ backoff' = NextBackoff(backoff)
    /\ wait_time' = 0
    /\ fetch_trace' = Append(fetch_trace, "sleep")
    /\ last_resp' = NoResponse
    /\ UNCHANGED <<args, startVars, listVars, list_error, only_rate_limits, rate_limited>>
    /\ IF attempt + 1 < MAX_RETRIES + 1
       THEN /\ pc' = "fetch"
            /\ attempt' = attempt + 1
            /\ UNCHANGED <<loopVars, transcript, outVars, exit_status, run_log>>
       ELSE /\ attempt' = attempt
            /\ MainAfterFetch(NoText)

\* The pause of line 642 or 645 ends: the loop goes to the next video and
\* calls the fetcher for it.
Pace ==
    /\ pc = "pace"
    /\ pc' = "fetch"
    /\ i' = i + 1
    /\ attempt' = 0
    /\ backoff' = INITIAL_BACKOFF
    /\ fetch_trace' = <<>>
    /\ last_resp' = NoResponse
    /\ only_rate_limits' = TRUE
    /\ rate_limited' = 0
    /\ run_log' = Append(run_log, Event("fetch", i + 1, videos[i + 1].video_id, "-"))
    /\ UNCHANGED <<args, startVars, listVars, list_error, videos, success_count, skip_count,
                   wait_time, transcript, outVars, exit_status>>

Next ==
    \/ Startup
    \/ \E outcome \in SearchOutcomes : ResolveSearch(outcome)
    \/ \E k \in 1..MaxPageSize : ListPage(k)
    \/ ListPageError
    \/ \E present \in SUBSET VideoIds : DetailsBatch(present)
    \/ DetailsBatchError
    \/ \E resp \in Responses : FetchCall(resp)
    \/ Backoff
    \/ Pace

Spec == Init /\ [][Next]_vars

\* The command lines of RunArgs with the cutoff at 2 and the bounds 0 and
\* 3750.
FairArgs ==
    {a \in RunArgs : /\ a.published_after = 2
                     /\ a.min_duration = 0
                     /\ a.max_duration = 3750}

InitFair ==
    /\ pc = "start"
    /\ args \in FairArgs
    /\ pure_call = NoCall
    /\ Fresh

\* The program is one thread: every request it sends comes back or raises,
\* and every sleep ends, so a step that can be taken is taken.
SpecFair == InitFair /\ [][Next]_vars /\ WF_vars(Next)

\* The fetcher's frame is gone when the process ends; what main held is kept
\* as the record of where it was.
Terminated ==
    /\ pc' = "killed"
    /\ attempt' = 0
    /\ backoff' = INITIAL_BACKOFF
    /\ wait_time' = 0
    /\ transcript' = NoText
    /\ fetch_trace' = <<>>
    /\ last_resp' = NoResponse
    /\ only_rate_limits' = TRUE
    /\ rate_limited' = 0
    /\ UNCHANGED <<args, startVars, listVars, loopVars, list_error, run_log,
                   exit_status, index_csv>>

\* The process is ended from outside while main is running (lines 531-648),
\* at one of its requests or sleeps.
Terminate ==
    /\ pc \in {"start", "resolve", "list", "details", "fetch", "backoff", "pace"}
    /\ Terminated
    /\ UNCHANGED files

\* The process is ended from outside inside write_transcript_file (lines
\* 430-436), after api.fetch gave a transcript for videos[i].
TerminateInWrite ==
    /\ pc = "fetch"
    /\ Terminated
    /\ files' = WriteFile(files, PartialFile(videos[i]))

NextKill ==
    \/ Next
    \/ Terminate
    \/ TerminateInWrite

\* The program, ended from outside at any point or left to run.
SpecKill == Init /\ [][NextKill]_vars

\* ------------------------------------------- the helpers called on their own
RECURSIVE IntToDigits(_)
\* The decimal digits of n >= 0.
IntToDigits(n) ==
    IF n < 10 THEN <<Digits[n + 1]>>
    ELSE IntToDigits(n \div 10) \o <<Digits[(n % 10) + 1]>>

\* The ISO 8601 duration the directory service writes for h hours, m minutes
\* and s seconds, a part that is None being left out.
FormatDuration(h, m, s) ==
    <<"P", "T">>
    \o (IF h = None THEN <<>> ELSE IntToDigits(h) \o <<"H">>)
    \o (IF m = None THEN <<>> ELSE IntToDigits(m) \o <<"M">>)
    \o (IF s = None THEN <<>> ELSE IntToDigits(s) \o <<"S">>)

HourParts == {None, 0, 1, 2, 10}
MinuteParts == {None, 0, 2, 59}
SecondParts == {None, 0, 30, 45}

\* The strings parse_iso_duration is called on: the well-formed durations,
\* the empty string, a duration with a day part and one that is no duration.
DurationInputs ==
    {FormatDuration(h, m, s) : h \in HourParts, m \in MinuteParts, s \in SecondParts}
    \cup {<<>>, <<"P", "1", "D", "T", "2", "H">>, <<"a", "b", "c">>}

\* n copies of text, one after the other.
RepeatText(text, n) ==
    [k \in 1..(n * Len(text)) |-> text[((k - 1) % Len(text)) + 1]]

TitleChars == {"A", "b", " ", "-", "_", "!", "1"}

\* The titles sanitize_filename is called on: every title of at most two of
\* TitleChars, and long titles around the limit of MAX_TITLE_LEN characters.
TitleInputs ==
    {<<>>}
    \cup {<<c>> : c \in TitleChars}
    \cup {<<c, d>> : c \in TitleChars, d \in TitleChars}
    \cup {RepeatText(<<"a">>, n) : n \in {99, 100, 101}}
    \cup {RepeatText(<<"A", " ", "!", "-">>, n) : n \in {33, 34, 40}}
    \cup {RepeatText(<<"b">>, 100) \o <<"!", "Z">>}

PureCalls ==
    {[fn |-> "parse_iso_duration", input |-> d, results |-> <<>>] : d \in DurationInputs}
    \cup {[fn |-> "sanitize_filename", input |-> t, results |-> <<>>] : t \in TitleInputs}

\* main is not run: one helper is called on one input.
InitPure ==
    /\ pc = "pure"
    /\ args = [channel_url |-> NoUrl, playlist_id |-> FALSE, api_key |-> FALSE]
    /\ pure_call \in PureCalls
    /\ Fresh

\* parse_iso_duration(input)
CallParse ==
    /\ pc = "pure"
    /\ pure_call.fn = "parse_iso_duration"
    /\ pure_call.results = <<>>
    /\ pure_call' = [pure_call EXCEPT !.results = <<parse_iso_duration(pure_call.input)>>]
    /\ UNCHANGED <<pc, args, channel_id, searches, listVars, loopVars, fetchVars,
                   outVars, exit_status, list_error, run_log>>

\* sanitize_filename(input), and then sanitize_filename of what it returned.
CallSanitize ==
    /\ pc = "pure"
    /\ pure_call.fn = "sanitize_filename"
    /\ Len(pure_call.results) < 2
    /\ LET on == IF pure_call.results = <<>> THEN pure_call.input
                 ELSE pure_call.results[Len(pure_call.results)]
       IN pure_call' = [pure_call EXCEPT !.results = Append(@, sanitize_filename(on))]
    /\ UNCHANGED <<pc, args, channel_id, searches, listVars, loopVars, fetchVars,
                   outVars, exit_status, list_error, run_log>>

NextPure ==
    \/ CallParse
    \/ CallSanitize

SpecPure == InitPure /\ [][NextPure]_vars

\* Every way of giving --channel-url, --playlist-id and YOUTUBE_API_KEY, the
\* other options fixed.
CommandLines ==
    {[channel_url |-> u,
      playlist_id |-> p,
      api_key |-> key,
      published_after |-> 1,
      min_duration |-> None,
      max_duration |-> None,
      batch_size |-> MaxBatchSize] :
        u \in ChannelUrls \cup {NoUrl}, p \in BOOLEAN, key \in BOOLEAN}

InitStartup ==
    /\ pc = "start"
    /\ args \in CommandLines
    /\ pure_call = NoCall
    /\ Fresh

\* The program on any command line.
SpecStartup == InitStartup /\ [][Next]_vars

\* ================================================================ claims
\* The fetcher has returned for video i and main has not started the next.
FetchReturned == pc \in {"pace", "done"}

Count(seq, x) == Cardinality({k \in DOMAIN seq : seq[k] = x})

NumCalls == Count(fetch_trace, "call")
NumSleeps == Count(fetch_trace, "sleep")

\* C1: when every api.fetch call of a fetch fails with a rate-limit error,
\* the fetcher has, on returning, called the service MAX_RETRIES + 1 times
\* (6) and slept MAX_RETRIES times, each sleep between two calls and none
\* after the last call, and it returns None.
C1_RateLimitExhaustion ==
    (FetchReturned /\ only_rate_limits) =>
        /\ NumCalls = MAX_RETRIES + 1
        /\ NumCalls = 6
        /\ NumSleeps = MAX_RETRIES
        /\ Len(fetch_trace) = 2 * MAX_RETRIES + 1
        /\ \A k \in DOMAIN fetch_trace :
               fetch_trace[k] = IF k % 2 = 1 THEN "call" ELSE "sleep"
        /\ transcript = NoText

C1_Witness ==
    /\ FetchReturned
    /\ only_rate_limits
    /\ NumCalls = 6
    /\ NumSleeps = 5

\* C2: a NoTranscriptFound, TranscriptsDisabled or VideoUnavailable error
\* on any attempt ends the fetch at once: the fetcher has returned None,
\* the failing call is the last entry of the trace (no sleep follows it),
\* and when it was the first call it is the only call.
C2_TerminalErrorNoRetry ==
    last_resp.cls \in TerminalClasses =>
        /\ FetchReturned
        /\ transcript = NoText
        /\ fetch_trace[Len(fetch_trace)] = "call"
        /\ NumSleeps = NumCalls - 1
        /\ (attempt = 0 => fetch_trace = <<"call">>)

C2_Witness ==
    /\ last_resp.cls \in TerminalClasses
    /\ FetchReturned
    /\ fetch_trace = <<"call">>

\* C3: an error that is neither one of the three transcript errors nor a
\* rate-limit signal makes the fetcher return None at once, with no sleep
\* and no further call; the fetcher sleeps for a retry only after a
\* rate-limit error.
C3_OtherErrorNoRetry ==
    /\ (last_resp.cls = "Exception" /\ last_resp \notin RateLimitResponses) =>
           /\ FetchReturned
           /\ transcript = NoText
           /\ fetch_trace[Len(fetch_trace)] = "call"
           /\ NumSleeps = NumCalls - 1
    /\ pc = "backoff" => last_resp \in RateLimitResponses
    /\ (pc = "fetch" /\ fetch_trace # <<>>) => only_rate_limits

C3_Witness ==
    /\ last_resp.cls = "Exception"
    /\ last_resp \notin RateLimitResponses
    /\ FetchReturned
    /\ NumCalls = 1

\* The indices of the run_log entries of kind e for position k.
EventsAt(e, k) ==
    {j \in DOMAIN run_log : run_log[j].e = e /\ run_log[j].pos = k}

\* The indices of the run_log entries of kind e.
EventsOf(e) == {j \in DOMAIN run_log : run_log[j].e = e}

\* C4: in the loop over n videos with batch size b, every position k < n
\* whose item is finished is followed by exactly one pause, after the
\* item's outcome and before the fetch of item k + 1, a batch pause when k
\* is a multiple of b and the per-item delay otherwise; no pause follows
\* item n.  For n = 12 and b = 10 the rule gives the batch pause after item
\* 10 only, the delay after items 1-9 and 11, and nothing after item 12.
C4_PacingPolicy ==
    /\ \A k \in 1..Len(videos) :
           LET pauses == EventsAt("pause", k)
               outcomes == EventsAt("outcome", k)
               following == EventsAt("fetch", k + 1)
           IN /\ k = Len(videos) => pauses = {}
              /\ outcomes = {} => pauses = {}
              /\ following # {} => Cardinality(pauses) = 1
              /\ (k < Len(videos) /\ outcomes # {}) =>
                     /\ Cardinality(pauses) = 1
                     /\ \A j \in pauses :
                            /\ \A o \in outcomes : o < j
                            /\ \A f \in following : j < f
                            /\ run_log[j].kind =
                                   IF k % args.batch_size = 0 THEN "batch" ELSE "delay"
    /\ pc = "pace" <=> (run_log # <<>> /\ run_log[Len(run_log)].e = "pause")
    /\ \A k \in 1..12 :
           PauseAfter(k, 12, 10) =
               IF k = 10 THEN "batch" ELSE IF k = 12 THEN "none" ELSE "delay"

C4_Witness ==
    /\ pc = "done"
    /\ Len(videos) = 4
    /\ args.batch_size = 2
    /\ Cardinality(EventsOf("pause")) = 3
    /\ \E j \in EventsAt("pause", 2) : run_log[j].kind = "batch"
    /\ \E j \in EventsAt("pause", 3) : run_log[j].kind = "delay"

\* C5: when the loop has finished, index.csv has been written exactly once,
\* as the last step and after every fetch, with one row per video of the
\* loop in order, and every video has its outcome set: flag true with a
\* path, or flag false with a blank path.  Before that there is no index.
C5_IndexWrittenOnce ==
    /\ pc = "done" =>
           /\ Cardinality(EventsOf("index")) = 1
           /\ run_log[Len(run_log)].e = "index"
           /\ \A f \in EventsOf("fetch") : \A x \in EventsOf("index") : f < x
           /\ index_csv # <<>>
           /\ Len(index_csv[1]) = Len(videos)
           /\ \A k \in DOMAIN videos :
                  LET row == index_csv[1][k] IN
                  /\ row.video_id = videos[k].video_id
                  /\ "has_transcript" \in DOMAIN videos[k]
                  /\ "transcript_path" \in DOMAIN videos[k]
                  /\ row.has_transcript = videos[k].has_transcript
                  /\ row.transcript_path = videos[k].transcript_path
                  /\ \/ row.has_transcript /\ row.transcript_path # <<>>
                     \/ ~row.has_transcript /\ row.transcript_path = <<>>
    /\ pc # "done" => (index_csv = <<>> /\ EventsOf("index") = {})

C5_Witness ==
    /\ pc = "done"
    /\ Len(videos) = 3
    /\ success_count = 0
    /\ Len(index_csv[1]) = 3

\* C6: when list_videos returns no video without a service error, the run
\* ends with index.csv written with zero rows and exit status 0.
C6_ZeroItemsIndexWritten ==
    (pc \in {"exited", "done"} /\ page_trace # <<>> /\ ~list_error
                                /\ videos = <<>>) =>
        (index_csv = <<<<>>>> /\ exit_status = 0)

\* C7: each video's outcome is set at most once and after its fetch; when
\* the fetcher returned a text (empty or not) for video i one file has been
\* written and the video is marked succeeded with that file's name, and
\* when it returned None no file has been written and the video is marked
\* failed with a blank path.
C7_OutcomeFollowsFetch ==
    /\ \A k \in 1..Len(videos) :
           /\ Cardinality(EventsAt("outcome", k)) <= 1
           /\ \A o \in EventsAt("outcome", k) : \A f \in EventsAt("fetch", k) : f < o
           /\ "has_transcript" \in DOMAIN videos[k] <=> EventsAt("outcome", k) # {}
    /\ FetchReturned =>
           LET video == videos[i] IN
           IF transcript # NoText
           THEN /\ Cardinality(EventsAt("artifact", i)) = 1
                /\ video.has_transcript
                /\ video.transcript_path = <<TranscriptFilename(video)>>
                /\ \E f \in files : f.name = TranscriptFilename(video) /\ f.body = transcript[1]
           ELSE /\ EventsAt("artifact", i) = {}
                /\ ~video.has_transcript
                /\ video.transcript_path = <<>>

\* C8: no failure of a fetch ends the run: the fetcher is called once for
\* each video, in list order; after k items success_count + skip_count = k,
\* the two counters count the succeeded and the failed videos, and the run
\* ends only after the last video, with succeeded + skipped = total.
C8_EveryItemFetchedOnce ==
    LET started == IF pc \in {"fetch", "backoff", "pace", "done"} THEN i ELSE 0
        processed == IF FetchReturned THEN i ELSE IF started > 0 THEN i - 1 ELSE 0
        IsFetch(ev) == ev.e = "fetch"
        Succeeded(video) == "has_transcript" \in DOMAIN video /\ video.has_transcript
        Failed(video) == "has_transcript" \in DOMAIN video /\ ~video.has_transcript
    IN /\ success_count + skip_count = processed
       /\ success_count = Len(SelectSeq(videos, Succeeded))
       /\ skip_count = Len(SelectSeq(videos, Failed))
       /\ SelectSeq(run_log, IsFetch) =
              [k \in 1..started |-> Event("fetch", k, videos[k].video_id, "-")]
       /\ pc \in {"fetch", "backoff", "pace"} => exit_status = None
       /\ (FetchReturned /\ i < Len(videos)) => pc = "pace"
       /\ pc = "done" =>
              /\ i = Len(videos)
              /\ success_count + skip_count = Len(videos)
              /\ exit_status = 0

C8_Witness ==
    /\ pc = "done"
    /\ Len(videos) = 3
    /\ ~videos[1].has_transcript
    /\ videos[2].has_transcript
    /\ ~videos[3].has_transcript
    /\ skip_count = 2

\* C9: no api.fetch call is made while list_videos is listing or fetching
\* details, and the fetcher is called only for videos of the list that
\* list_videos returned: never for a video that is not public, that was
\* published before the cutoff, or that a duration bound in force excludes
\* (a bound of 0 is not in force: C10).
C9_NoFetchBeforeFiltering ==
    /\ pc \in {"list", "details"} =>
           /\ EventsOf("fetch") = {}
           /\ fetch_trace = <<>>
           /\ last_resp = NoResponse
    /\ \A j \in EventsOf("fetch") :
           LET v == run_log[j].video_id
           IN /\ \E k \in DOMAIN videos_with_details :
                     /\ videos_with_details[k].video_id = v
                     /\ args.min_duration > 0 =>
                            videos_with_details[k].duration >= args.min_duration
                     /\ args.max_duration > 0 =>
                            videos_with_details[k].duration <= args.max_duration
              /\ PrivacyOf(v) = "public"
              /\ PublishedAtOf(v) >= args.published_after

C9_Witness ==
    /\ pc = "done"
    /\ args.playlist_id
    /\ args.published_after = 2
    /\ args.min_duration = 60
    /\ args.max_duration = 3750
    /\ \E k \in DOMAIN lv_videos : PrivacyOf(lv_videos[k].video_id) # "public"
    /\ \E v \in VideoIds : PublishedAtOf(v) < args.published_after
    /\ Len(lv_videos) = 4
    /\ Len(videos) = 1
    /\ Cardinality(EventsOf("fetch")) = 1

\* C10: every record list_videos returns was published at or after the
\* cutoff, is public, is no shorter than min_duration when one is given and
\* no longer than max_duration when one is given, for any bounds >= 0.
C10_ReturnedRecordsPassFilters ==
    \A k \in DOMAIN videos :
        /\ videos[k].published_at >= args.published_after
        /\ PrivacyOf(videos[k].video_id) = "public"
        /\ args.min_duration # None => videos[k].duration >= args.min_duration
        /\ args.max_duration # None => videos[k].duration <= args.max_duration

\* list_videos has returned to main without an HttpError.
ListReturned ==
    /\ pc \in {"fetch", "backoff", "pace", "done", "exited"}
    /\ exit_status # 1
    /\ ~list_error

IdsOf(records) == [k \in DOMAIN records |-> records[k].video_id]

\* C11: in playlist mode, when no request fails, list_videos returns exactly
\* the listed items that were published at or after the cutoff, that the
\* details response reports as public and whose duration is within the
\* bounds supplied, in the order the service listed them, each once.
C11_PlaylistResultExact ==
    (ListReturned /\ args.playlist_id) =>
        LET Eligible(v) ==
                /\ PublishedAtOf(v) >= args.published_after
                /\ v \in details_seen
                /\ PrivacyOf(v) = "public"
                /\ args.min_duration # None =>
                       parse_iso_duration(DurationIsoOf(v)) >= args.min_duration
                /\ args.max_duration # None =>
                       parse_iso_duration(DurationIsoOf(v)) <= args.max_duration
        IN IdsOf(videos_with_details) = SelectSeq(ServiceListing(args), Eligible)

\* C12: the first listing request carries no token; every further one
\* follows a response that carried a token and passes that token; while the
\* last response carried a token the lister is still paging; the lister
\* leaves the paging loop only on a response without a token, and no
\* videos().list request is made before that.
C12_PagingFollowsTokens ==
    LET n == Len(page_trace)
    IN /\ n > 0 => page_trace[1][1] = 0
       /\ \A k \in 2..n : /\ page_trace[k - 1][2] # 0
                           /\ page_trace[k][1] = page_trace[k - 1][2]
       /\ (n > 0 /\ page_trace[n][2] # 0 /\ ~list_error) => pc = "list"
       /\ (pc = "list" /\ n > 0) => page_trace[n][2] # 0
       /\ pc = "details" => (n > 0 /\ page_trace[n][2] = 0)
       /\ pc \in {"start", "resolve", "list"} =>
              (detail_i = 0 /\ details_seen = {} /\ videos_with_details = <<>>)

\* Three pages were listed before the details lookup started.
C12_Witness ==
    /\ pc = "details"
    /\ Len(page_trace) = 3
    /\ page_trace[2] = <<page_trace[1][2], page_trace[3][1]>>
    /\ page_trace[3][2] = 0

NothingDone ==
    /\ searches = <<>>
    /\ page_trace = <<>>
    /\ detail_i = 0
    /\ details_seen = {}
    /\ fetch_trace = <<>>
    /\ run_log = <<>>
    /\ files = {}
    /\ index_csv = <<>>

\* C14: when neither or both of --channel-url and --playlist-id are given,
\* or the API key is missing, the run has ended with exit status 1 as soon
\* as it has taken a step, and it has made no request and written no file.
C14_InvalidStartExits ==
    LET both_or_neither == (args.channel_url # NoUrl) = args.playlist_id
    IN (pc # "start" /\ (both_or_neither \/ ~args.api_key)) =>
           (pc = "exited" /\ exit_status = 1 /\ NothingDone)

\* A run with a playlist only and no API key has exited.
C14_Witness ==
    /\ pc = "exited"
    /\ exit_status = 1
    /\ args.playlist_id
    /\ args.channel_url = NoUrl
    /\ ~args.api_key

\* C15: when the channel URL is of no known shape, or the search for its
\* handle or name finds nothing or raises HttpError, the run has ended with
\* exit status 1 and no channel identifier, and it has made no listing or
\* details request, no transcript request, and written no file and no index.
C15_UnresolvedChannelExits ==
    LET unparseable == args.channel_url \in {UrlChannelNoId, UrlHandleNoName, UrlOther}
        not_found == searches # <<>> /\ searches[1] \in {"empty", "error"}
    IN (/\ args.channel_url # NoUrl
        /\ ~args.playlist_id
        /\ args.api_key
        /\ pc # "start"
        /\ unparseable \/ not_found) =>
           /\ pc = "exited"
           /\ exit_status = 1
           /\ channel_id = NoChannel
           /\ unparseable => searches = <<>>
           /\ page_trace = <<>>
           /\ detail_i = 0
           /\ details_seen = {}
           /\ fetch_trace = <<>>
           /\ run_log = <<>>
           /\ files = {}
           /\ index_csv = <<>>

\* The search for a custom name raised HttpError and the run has exited.
C15_Witness ==
    /\ pc = "exited"
    /\ exit_status = 1
    /\ args.channel_url = UrlCustom
    /\ searches = <<"error">>

\* C16: a run ended from outside before its loop has handled the last item
\* leaves no index; at every moment, also after such an end, each item marked
\* as transcribed has its complete file on disk; and in the order of what
\* main did, the index write comes after every fetch and every file write.
C16_TerminationLosesOnlyInFlight ==
    LET last_handled ==
            videos # <<>> /\ EventsAt("outcome", Len(videos)) # {}
        HasFile(video) ==
            \E f \in files : /\ f.name = TranscriptFilename(video)
                             /\ "body" \in DOMAIN f
                             /\ f.body # ""
                             /\ f.title = video.title
    IN /\ (pc = "killed" /\ ~last_handled) => index_csv = <<>>
       /\ \A k \in DOMAIN videos :
              ("has_transcript" \in DOMAIN videos[k] /\ videos[k].has_transcript)
                  => HasFile(videos[k])
       /\ \A j \in EventsOf("index") :
              \A k \in EventsOf("fetch") \cup EventsOf("artifact") : k < j

\* The run was ended while the file of the second item was being written,
\* after the first item's file had been written.
C16_Witness ==
    /\ pc = "killed"
    /\ i = 2
    /\ videos[1].has_transcript
    /\ \E f \in files : f = PartialFile(videos[2])
    /\ \E f \in files : f.name = TranscriptFilename(videos[1]) /\ "body" \in DOMAIN f

\* C17: the k-th sleep of a fetch uses backoff 5 * 2^(k-1) and lasts between
\* backoff and 1.5 * backoff seconds, so both bounds grow strictly with k;
\* every fetch starts with backoff 5.
C17_BackoffDoubles ==
    LET k == NumSleeps + 1
        B(j) == 5 * 2^(j - 1)
        \* seconds in the unit of wait_time
        Seconds(n) == 2 * JitterSteps * n
    IN /\ pc \in {"fetch", "backoff"} => backoff = B(k)
       /\ pc = "backoff" =>
              /\ Seconds(B(k)) <= wait_time
              /\ 2 * wait_time <= 3 * Seconds(B(k))
              /\ \A j \in 1..(k - 1) :
                     /\ Seconds(B(j)) < Seconds(B(j + 1))
                     /\ 3 * Seconds(B(j)) < 3 * Seconds(B(j + 1))
       /\ (pc = "fetch" /\ fetch_trace = <<>>) => backoff = 5

\* The fifth sleep of the fetch of the second item, at its longest.
C17_Witness ==
    /\ pc = "backoff"
    /\ i = 2
    /\ NumSleeps = 4
    /\ backoff = 80
    /\ 2 * wait_time = 3 * 2 * JitterSteps * 80

\* C20: when the fetcher returns on a response that is not a rate limit,
\* that response was the first such one, after k <= MAX_RETRIES rate-limited
\* calls: the fetcher made exactly k + 1 calls and slept exactly k times, and
\* it returns the segments joined by single spaces when the response was a
\* transcript and None when it was any other error.
C20_FirstOtherResponseDecides ==
    (FetchReturned /\ last_resp # NoResponse /\ last_resp \notin RateLimitResponses) =>
        LET k == rate_limited
            joined == CASE last_resp.segments = <<>> -> ""
                        [] last_resp.segments = <<"">> -> ""
                        [] last_resp.segments = <<"hello", "world">> -> "hello world"
        IN /\ k <= MAX_RETRIES
           /\ NumCalls = k + 1
           /\ NumSleeps = k
           /\ \A j \in DOMAIN fetch_trace :
                  fetch_trace[j] = (IF j % 2 = 1 THEN "call" ELSE "sleep")
           /\ last_resp.cls = "ok" => transcript = <<joined>>
           /\ last_resp.cls # "ok" => transcript = NoText

\* A transcript came on the last call allowed, after MAX_RETRIES rate limits.
C20_Witness ==
    /\ FetchReturned
    /\ last_resp = [cls |-> "ok", segments |-> <<"hello", "world">>]
    /\ rate_limited = MAX_RETRIES
    /\ NumCalls = MAX_RETRIES + 1
    /\ transcript = <<"hello world">>

Text_PT1H2M30S == <<"P", "T", "1", "H", "2", "M", "3", "0", "S">>
Text_PT45S == <<"P", "T", "4", "5", "S">>
Text_PT2H == <<"P", "T", "2", "H">>

\* parse_iso_duration has returned.
Parsed == pure_call.fn = "parse_iso_duration" /\ pure_call.results # <<>>

\* What parse_iso_duration returns on the other inputs of the claim C18, that
\* it never returns a negative number, and that a part left out of a
\* well-formed duration counts as zero.
ParseOtherwise ==
    Parsed =>
        LET r == pure_call.results[1]
            Part(x) == IF x = None THEN 0 ELSE x
        IN /\ pure_call.input = Text_PT45S => r = 45
           /\ pure_call.input = Text_PT2H => r = 7200
           /\ pure_call.input = <<>> => r = 0
           /\ r >= 0
           /\ \A h \in HourParts, m \in MinuteParts, s \in SecondParts :
                  pure_call.input = FormatDuration(h, m, s) =>
                      r = Part(h) * 3600 + Part(m) * 60 + Part(s)

\* C18 as stated: parse_iso_duration("PT1H2M30S") is 3662, "PT45S" gives 45,
\* "PT2H" gives 7200, "" gives 0, the result is never negative and a missing
\* part counts as zero.
C18_ParseValuesAsStated ==
    /\ (Parsed /\ pure_call.input = Text_PT1H2M30S) => pure_call.results[1] = 3662
    /\ ParseOtherwise

\* C18, amended: parse_iso_duration("PT1H2M30S") is 3750 = 3600 + 120 + 30,
\* "PT45S" gives 45, "PT2H" gives 7200, "" gives 0, the result is never
\* negative and a missing part counts as zero.
C18_ParseValues ==
    /\ (Parsed /\ pure_call.input = Text_PT1H2M30S) => pure_call.results[1] = 3750
    /\ ParseOtherwise

\* parse_iso_duration has returned for "PT1H2M30S".
C18_Witness == Parsed /\ pure_call.input = Text_PT1H2M30S

C21_RunTerminatesWithinBounds ==
    /\ [](/\ NumCalls <= MAX_RETRIES + 1
          /\ NumSleeps <= MAX_RETRIES
          /\ Cardinality(EventsOf("fetch")) <= Len(videos)
          /\ \A k \in 1..Len(videos) : Cardinality(EventsAt("fetch", k)) <= 1
          /\ Cardinality(EventsOf("pause")) <= Len(videos) - (IF videos = <<>> THEN 0 ELSE 1)
          /\ pc = "done" => Cardinality(EventsOf("pause")) = Len(videos) - 1)
    /\ <>(pc \in {"done", "exited"})

\* A run over three items has ended; its last fetch used every call and
\* every sleep allowed.
C21_Witness ==
    /\ pc = "done"
    /\ Len(videos) = 3
    /\ NumCalls = MAX_RETRIES + 1
    /\ NumSleeps = MAX_RETRIES
    /\ Cardinality(EventsOf("pause")) = 2

\* C22: an accumulated video whose identifier no videos().list response
\* carried is not in what list_videos returns; every record it returns has
\* the duration the response gave, an integer >= 0, and so has every video
\* the fetcher is called for, every transcript file and every index row.
C22_ReturnedRecordsHaveDuration ==
    LET Populated(record) ==
            /\ "duration" \in DOMAIN record
            /\ record.duration \in Nat
    IN /\ \A k \in DOMAIN videos_with_details :
              /\ videos_with_details[k].video_id \in details_seen
              /\ Populated(videos_with_details[k])
       /\ \A k \in DOMAIN lv_videos : "duration" \notin DOMAIN lv_videos[k]
       /\ \A k \in DOMAIN videos :
              /\ videos[k].video_id \in details_seen
              /\ Populated(videos[k])
       /\ \A j \in EventsOf("fetch") : run_log[j].video_id \in details_seen
       /\ \A f \in files : f.duration \in Nat
       /\ index_csv # <<>> =>
              \A k \in DOMAIN index_csv[1] :
                  /\ index_csv[1][k].duration \in Nat
                  /\ index_csv[1][k].video_id \in details_seen

\* A run without duration bounds has ended with its index written; the
\* response left out the public video 2, which is in no row.
C22_Witness ==
    /\ pc = "done"
    /\ args.min_duration = None
    /\ \E k \in DOMAIN lv_videos : lv_videos[k].video_id = 2
    /\ 2 \notin details_seen
    /\ Len(index_csv[1]) = 3
    /\ files # {}

====
